---- MODULE Spec2Model ----
(***************************************************************************)
(* A model of the interactive chat client (chat.py): the model selector,   *)
(* the conversation loop and the outer session controller of main().       *)
(*                                                                         *)
(* Text is modelled as a sequence of one-character strings, so that        *)
(* trimming, lower-casing, number formatting and prompt rendering are      *)
(* computed character by character as the Python code computes them.       *)
(***************************************************************************)
EXTENDS Integers, Sequences, FiniteSets, TLC

\* ------------------------------------------------------------------ bounds

\* A message turn is taken only while the history has room for the user
\* message and its reply.
MaxHistory == 4

\* The number of select_model() calls (model selections) in one run of main().
MaxSessions == 2

\* ------------------------------------------------------------- text helpers

\* str.strip() with no argument removes these from both ends.
IsSpace(c) == c \in {" ", "\t", "\n"}

RECURSIVE LStrip(_)
LStrip(s) == IF s = <<>> THEN s
             ELSE IF IsSpace(Head(s)) THEN LStrip(Tail(s)) ELSE s

RECURSIVE RStrip(_)
RStrip(s) == IF s = <<>> THEN s
             ELSE IF IsSpace(s[Len(s)]) THEN RStrip(SubSeq(s, 1, Len(s) - 1)) ELSE s

\* Mutant: the line is used as read, without .strip().
StripNothing(s) == s

\* str.strip()
Strip(s) == RStrip(LStrip(s))

UpperLetters == <<"A","B","C","D","E","F","G","H","I","J","K","L","M",
                  "N","O","P","Q","R","S","T","U","V","W","X","Y","Z">>
LowerLetters == <<"a","b","c","d","e","f","g","h","i","j","k","l","m",
                  "n","o","p","q","r","s","t","u","v","w","x","y","z">>

LowerChar(c) == IF \E i \in 1..Len(UpperLetters) : UpperLetters[i] = c
                THEN LowerLetters[CHOOSE i \in 1..Len(UpperLetters) : UpperLetters[i] = c]
                ELSE c

\* str.lower()
Lower(s) == [i \in 1..Len(s) |-> LowerChar(s[i])]

Digits == <<"0","1","2","3","4","5","6","7","8","9">>

\* str(k) for a natural number k: its decimal numeral.
RECURSIVE Str(_)
Str(k) == IF k < 10 THEN <<Digits[k + 1]>>
          ELSE Str(k \div 10) \o <<Digits[(k % 10) + 1]>>

\* ------------------------------------------------------------ the registry

\* config.MODELS: the static model registry, in order. An identifier is one
\* string; a description is the sequence of its words.
MODELS == <<
  [name |-> "dolphin-llama3:70b",   description |-> <<"Dolphin", "Llama3", "70B", "Uncensored">>],
  [name |-> "dolphin-mixtral:8x7b", description |-> <<"Dolphin", "Mixtral", "8x7B", "Uncensored">>],
  [name |-> "dolphin-llama3:34b",   description |-> <<"Dolphin", "Llama3", "34B", "Uncensored">>],
  [name |-> "dolphin-llama3:8b",    description |-> <<"Dolphin", "Llama3", "8B", "Uncensored">>],
  [name |-> "dolphin-mistral:7b",   description |-> <<"Dolphin", "Mistral", "7B", "Uncensored">>],
  [name |-> "dolphin2.2-mistral:7b", description |-> <<"Dolphin", "2.2", "Mistral", "7B", "Uncensored">>],
  [name |-> "wizardlm-uncensored:13b", description |-> <<"WizardLM", "Uncensored", "13B">>],
  [name |-> "nous-hermes-llama2-uncensored:13b", description |-> <<"Nous", "Hermes", "Llama2", "Uncensored", "13B">>],
  [name |-> "orca2-uncensored:7b",  description |-> <<"Orca", "2", "Uncensored", "7B">>] >>

\* The registries select_model() is checked over: MODELS cut to its first n
\* entries, 1 <= n <= len(MODELS).
Registries == { SubSeq(MODELS, 1, n) : n \in 1..Len(MODELS) }

\* ------------------------------------------------------------ program text

ExitWord   == <<"e","x","i","t">>
QuitWord   == <<"q","u","i","t">>
ClearCmd   == <<"/","c","l","e","a","r">>
ModelsCmd  == <<"/","m","o","d","e","l","s">>

\* The role labels of the prompt (chat.py, the f-strings of the render loop).
UserLabel      == <<"U","s","e","r",":"," ">>
AssistantLabel == <<"A","s","s","i","s","t","a","n","t",":"," ">>
NL             == <<"\n">>

\* The fallback notice of select_model().
FallbackNotice == "Invalid choice, using default (Dolphin Mistral)"

\* The model the fallback notice names, as words.
AnnouncedDefault == <<"Dolphin", "Mistral">>

\* ------------------------------------------------------------------ inputs

Hi        == <<"h","i">>
HowAreYou == <<"h","o","w"," ","a","r","e"," ","y","o","u">>

\* Lines typed at the "You: " prompt.
ChatLines == {
  <<>>,
  <<" "," ">>,
  <<"e","x","i","t">>,
  <<"E","X","I","T">>,
  <<" ","Q","u","i","t"," ">>,
  <<"/","c","l","e","a","r">>,
  <<" ","/","c","l","e","a","r"," ">>,
  <<"/","C","L","E","A","R">>,
  <<"/","m","o","d","e","l","s">>,
  Hi,
  <<" ","h","i","\t">>,
  HowAreYou }

\* The lines of the classification check: commands, near-commands and a message.
UpperClear == <<"/","C","L","E","A","R">>
MixedModels == <<"/","M","o","d","e","l","s">>
ClearNow == <<"/","c","l","e","a","r"," ","n","o","w">>
PaddedClear == <<" ","/","c","l","e","a","r"," ">>

TurnLines == {
  <<>>,
  <<" ","\t">>,
  <<"e","x","i","t">>,
  <<"Q","U","I","T">>,
  <<"e","x","i","t"," ","n","o","w">>,
  ClearCmd,
  PaddedClear,
  UpperClear,
  ClearNow,
  ModelsCmd,
  MixedModels,
  Hi }

\* Lines typed at the "Select model (1-n): " prompt.
AllSelectLines == {
  <<>>, <<" ">>,
  <<"0">>, <<"1">>, <<"2">>, <<"3">>, <<"4">>, <<"5">>,
  <<"6">>, <<"7">>, <<"8">>, <<"9">>, <<"1","0">>,
  <<" ","3"," ">>, <<"0","2">>, <<"0","0","7">>, <<"1"," ","2">>,
  <<"a","b","c">>, <<"+","1">>, <<"-","1">>, <<"2",".","0">> }

\* The selector lines of the whole-session specification.
SelectLines == { <<"1">>, <<" ","2"," ">>, <<>>, <<"0","2">>, <<"a","b","c">> }

\* What a runner call may return: its exit status and its captured output.
RunnerOutcomes == {
  [rc |-> 0, stdout |-> <<"o","k","\n">>],
  [rc |-> 0, stdout |-> <<" ","\n">>],
  [rc |-> 1, stdout |-> <<>>] }

\* ------------------------------------------------------------------- state

VARIABLES
  pc,               \* where main() is: start, check, list, select, selected, chat,
                    \* running (subprocess.run in flight), returned, done, exit1, fault
  registry,         \* the registry select_model() reads (config.MODELS)
  model_name,       \* main's model_name, chat's parameter
  should_continue,  \* chat()'s return value as main() holds it
  conversation,     \* chat's history: records [role, content, session]
  prompt,           \* chat's local prompt, as last built
  call,             \* the runner invocation in flight: [model, prompt], or NoCall
  printed,          \* what the last step printed
  ev,               \* the last thing that happened: [kind, text, rc]
  session,          \* history variable: the number of select_model() calls so far
  okTurns,          \* history variable: the message turns answered with status 0 in this
                    \* chat(), counted while allOk
  allOk,            \* history variable: this chat() has seen only such turns so far
  dl                \* download_all_models(): [pc, interactive, answer, i, success_count,
                    \* log, result]; log is a history field, the downloads attempted

vars == << pc, registry, model_name, should_continue, conversation, prompt, call,
           printed, ev, session, okTurns, allOk, dl >>

\* download_all_models() not running.
NoDownload == [pc |-> "idle", interactive |-> FALSE, answer |-> <<>>, i |-> 1,
               success_count |-> 0, log |-> <<>>, result |-> FALSE]

NoCall  == [model |-> "", prompt |-> <<>>, live |-> FALSE]
NoModel == ""

Event(kind, text, rc) == [kind |-> kind, text |-> text, rc |-> rc]

\* ----------------------------------------------------------- select_model()

\* Mutant: the menu keys numbered from 0, str(i) for str(i+1).
ModelDictZeroBased(models) ==
  [key \in { Str(i - 1) : i \in 1..Len(models) } |->
     models[CHOOSE i \in 1..Len(models) : Str(i - 1) = key]]

\* model_dict = {str(i+1): model for i, model in enumerate(MODELS)}
ModelDict(models) ==
  [key \in { Str(i) : i \in 1..Len(models) } |->
     models[CHOOSE i \in 1..Len(models) : Str(i) = key]]

\* MODELS[0]['name'], the default of the else branch.
DefaultModel(models) == models[1].name

\* select_model() on one line of input: the identifier returned and what is
\* printed after the menu.
select_model(models, line) ==
  LET choice == Strip(line)
      model_dict == ModelDict(models)
  IN  IF choice \in DOMAIN model_dict
      THEN [name |-> model_dict[choice].name, printed |-> <<"menu">>]
      ELSE [name |-> DefaultModel(models), printed |-> <<"menu", FallbackNotice>>]

\* ------------------------------------------------------------------- chat()

\* Mutant: the commands compared in lower case, like exit and quit.
ClassifyCommandsAnyCase(user_input) ==
  IF user_input = <<>> THEN "empty"
  ELSE IF Lower(user_input) \in {ExitWord, QuitWord} THEN "exit"
  ELSE IF Lower(user_input) = ClearCmd THEN "clear"
  ELSE IF Lower(user_input) = ModelsCmd THEN "models"
  ELSE "message"

\* Mutant: exit and quit compared without .lower().
ClassifyCaseSensitive(user_input) ==
  IF user_input = <<>> THEN "empty"
  ELSE IF user_input \in {ExitWord, QuitWord} THEN "exit"
  ELSE IF user_input = ClearCmd THEN "clear"
  ELSE IF user_input = ModelsCmd THEN "models"
  ELSE "message"

\* The if-chain of the loop body, on the trimmed line, in the code's order.
Classify(user_input) ==
  IF user_input = <<>> THEN "empty"
  ELSE IF Lower(user_input) \in {ExitWord, QuitWord} THEN "exit"
  ELSE IF user_input = ClearCmd THEN "clear"
  ELSE IF user_input = ModelsCmd THEN "models"
  ELSE "message"

UserMessage(content) == [role |-> "user", content |-> content, session |-> session]
\* Mutant: the reply stored under the user role.
AssistantMessageAsUser(content) == [role |-> "user", content |-> content, session |-> session]

AssistantMessage(content) == [role |-> "assistant", content |-> content, session |-> session]

\* Mutant: the line break after a message left out.
RenderMessageNoNewline(msg) ==
  IF msg.role = "user" THEN UserLabel \o msg.content
  ELSE AssistantLabel \o msg.content

\* One pass of the render loop: the line a message adds to the prompt.
RenderMessage(msg) ==
  IF msg.role = "user" THEN UserLabel \o msg.content \o NL
  ELSE AssistantLabel \o msg.content \o NL

\* for msg in conversation: prompt += ...
RECURSIVE RenderLoop(_, _, _)
RenderLoop(conv, i, acc) ==
  IF i > Len(conv) THEN acc
  ELSE RenderLoop(conv, i + 1, acc \o RenderMessage(conv[i]))

\* Mutant: only the newest message is rendered.
BuildPromptLastOnly(conv) ==
  (IF conv = <<>> THEN <<>> ELSE RenderMessage(conv[Len(conv)])) \o AssistantLabel

\* prompt = ""; the loop; prompt += "Assistant: "
BuildPrompt(conv) == RenderLoop(conv, 1, <<>>) \o AssistantLabel

\* Mutant: the history outlives the chat() call (no reset on entry).
ChatStartKeepsHistory ==
  /\ pc = "selected"
  /\ pc' = "chat"
  /\ prompt' = <<>>
  /\ printed' = <<"Starting chat with <model_name>">>
  /\ ev' = Event("chat_start", <<>>, 0)
  /\ okTurns' = 0
  /\ allOk' = TRUE
  /\ UNCHANGED << dl, registry, model_name, should_continue, conversation, call, session >>

\* conversation = [] on entry (and the banner).
ChatStart ==
  /\ pc = "selected"
  /\ pc' = "chat"
  /\ conversation' = <<>>
  /\ prompt' = <<>>
  /\ printed' = <<"Starting chat with <model_name>">>
  /\ ev' = Event("chat_start", <<>>, 0)
  /\ okTurns' = 0
  /\ allOk' = TRUE
  /\ UNCHANGED << dl, registry, model_name, should_continue, call, session >>

\* if not user_input: continue
ChatEmpty(line) ==
  /\ pc = "chat"
  /\ Classify(Strip(line)) = "empty"
  /\ ev' = Event("input", line, 0)
  /\ printed' = <<>>
  /\ UNCHANGED << dl, pc, registry, model_name, should_continue, conversation, prompt,
                  call, session, okTurns, allOk >>

\* exit / quit: print, break, return False
ChatExit(line) ==
  /\ pc = "chat"
  /\ Classify(Strip(line)) = "exit"
  /\ ev' = Event("input", line, 0)
  /\ printed' = <<"Goodbye!">>
  /\ pc' = "returned"
  /\ should_continue' = FALSE
  /\ allOk' = FALSE
  /\ UNCHANGED << dl, registry, model_name, conversation, prompt, call, session, okTurns >>

\* Mutant: /clear drops only the oldest message of the history.
ChatClearDropsOldest(line) ==
  /\ pc = "chat"
  /\ Classify(Strip(line)) = "clear"
  /\ ev' = Event("input", line, 0)
  /\ conversation' = IF conversation = <<>> THEN <<>> ELSE Tail(conversation)
  /\ printed' = <<"[Conversation history cleared]">>
  /\ allOk' = FALSE
  /\ UNCHANGED << dl, pc, registry, model_name, should_continue, prompt, call, session,
                  okTurns >>

\* Mutant: /clear confirms but leaves the history as it is.
ChatClearKeepsHistory(line) ==
  /\ pc = "chat"
  /\ Classify(Strip(line)) = "clear"
  /\ ev' = Event("input", line, 0)
  /\ printed' = <<"[Conversation history cleared]">>
  /\ allOk' = FALSE
  /\ UNCHANGED << dl, pc, registry, model_name, should_continue, conversation, prompt,
                  call, session, okTurns >>

\* /clear: conversation = [], print, continue
ChatClear(line) ==
  /\ pc = "chat"
  /\ Classify(Strip(line)) = "clear"
  /\ ev' = Event("input", line, 0)
  /\ conversation' = <<>>
  /\ printed' = <<"[Conversation history cleared]">>
  /\ allOk' = FALSE
  /\ UNCHANGED << dl, pc, registry, model_name, should_continue, prompt, call, session,
                  okTurns >>

\* Mutant: /models leaves the loop with break, so chat() returns False.
ChatModelsBreaks(line) ==
  /\ pc = "chat"
  /\ Classify(Strip(line)) = "models"
  /\ session < MaxSessions
  /\ ev' = Event("input", line, 0)
  /\ printed' = <<>>
  /\ pc' = "returned"
  /\ should_continue' = FALSE
  /\ allOk' = FALSE
  /\ UNCHANGED << dl, registry, model_name, conversation, prompt, call, session, okTurns >>

\* /models: return True
ChatModels(line) ==
  /\ pc = "chat"
  /\ Classify(Strip(line)) = "models"
  /\ session < MaxSessions
  /\ ev' = Event("input", line, 0)
  /\ printed' = <<>>
  /\ pc' = "returned"
  /\ should_continue' = TRUE
  /\ allOk' = FALSE
  /\ UNCHANGED << dl, registry, model_name, conversation, prompt, call, session, okTurns >>

\* Mutant: the runner is started with the default model of the registry.
ChatMessageDefaultModel(line) ==
  /\ pc = "chat"
  /\ Classify(Strip(line)) = "message"
  /\ Len(conversation) + 2 <= MaxHistory
  /\ ev' = Event("input", line, 0)
  /\ conversation' = Append(conversation, UserMessage(Strip(line)))
  /\ prompt' = BuildPrompt(conversation')
  /\ call' = [model |-> DefaultModel(registry), prompt |-> prompt', live |-> TRUE]
  /\ printed' = <<>>
  /\ pc' = "running"
  /\ UNCHANGED << dl, registry, model_name, should_continue, session, okTurns, allOk >>

\* A message: append the user message, build the prompt, start the runner.
ChatMessage(line) ==
  /\ pc = "chat"
  /\ Classify(Strip(line)) = "message"
  /\ Len(conversation) + 2 <= MaxHistory
  /\ ev' = Event("input", line, 0)
  /\ conversation' = Append(conversation, UserMessage(Strip(line)))
  /\ prompt' = BuildPrompt(conversation')
  /\ call' = [model |-> model_name, prompt |-> prompt', live |-> TRUE]
  /\ printed' = <<>>
  /\ pc' = "running"
  /\ UNCHANGED << dl, registry, model_name, should_continue, session, okTurns, allOk >>

\* Mutant: the exit status is not tested; the output is always appended.
RunnerReturnsIgnoringStatus(rc, stdout) ==
  /\ pc = "running"
  /\ ev' = Event("returned", stdout, rc)
  /\ call' = NoCall
  /\ pc' = "chat"
  /\ conversation' = Append(conversation, AssistantMessage(Strip(stdout)))
  /\ printed' = <<"<model_name>: <response>">>
  /\ okTurns' = IF allOk THEN okTurns + 1 ELSE okTurns
  /\ UNCHANGED << dl, registry, model_name, should_continue, prompt, session, allOk >>

\* subprocess.run(...) returned: an error status is printed and the turn ends;
\* otherwise the trimmed output is appended as the assistant message.
RunnerReturns(rc, stdout) ==
  /\ pc = "running"
  /\ ev' = Event("returned", stdout, rc)
  /\ call' = NoCall
  /\ pc' = "chat"
  /\ IF rc # 0
     THEN /\ printed' = <<"Error: <stderr>">>
          /\ allOk' = FALSE
          /\ UNCHANGED << conversation, okTurns >>
     ELSE /\ conversation' = Append(conversation, AssistantMessage(Strip(stdout)))
          /\ printed' = <<"<model_name>: <response>">>
          /\ okTurns' = IF allOk THEN okTurns + 1 ELSE okTurns
          /\ UNCHANGED allOk
  /\ UNCHANGED << dl, registry, model_name, should_continue, prompt, session >>

\* Mutant: no except Exception clause; the fault leaves chat() and main().
RunnerRaisesUncaught ==
  /\ pc = "running"
  /\ ev' = Event("runner_raised", <<>>, 0)
  /\ call' = NoCall
  /\ pc' = "fault"
  /\ printed' = <<"Traceback">>
  /\ allOk' = FALSE
  /\ UNCHANGED << dl, registry, model_name, should_continue, conversation, prompt,
                  session, okTurns >>

\* Mutant: the handler removes the turn's user message from the history.
RunnerRaisesRollsBack ==
  /\ pc = "running"
  /\ ev' = Event("runner_raised", <<>>, 0)
  /\ call' = NoCall
  /\ pc' = "chat"
  /\ printed' = <<"Error: <e>">>
  /\ allOk' = FALSE
  /\ conversation' = SubSeq(conversation, 1, Len(conversation) - 1)
  /\ UNCHANGED << dl, registry, model_name, should_continue, prompt,
                  session, okTurns >>

\* subprocess.run(...) raised (the executable cannot be started):
\* except Exception: print, continue
RunnerRaises ==
  /\ pc = "running"
  /\ ev' = Event("runner_raised", <<>>, 0)
  /\ call' = NoCall
  /\ pc' = "chat"
  /\ printed' = <<"Error: <e>">>
  /\ allOk' = FALSE
  /\ UNCHANGED << dl, registry, model_name, should_continue, conversation, prompt,
                  session, okTurns >>

\* input("You: ") raised EOFError: except Exception: print, continue
InputRaises ==
  /\ pc = "chat"
  /\ ev' = Event("input_raised", <<>>, 0)
  /\ printed' = <<"Error: <e>">>
  /\ allOk' = FALSE
  /\ UNCHANGED << dl, pc, registry, model_name, should_continue, conversation, prompt,
                  call, session, okTurns >>

\* Mutant: no except KeyboardInterrupt clause; the interrupt leaves chat().
InterruptedPropagates ==
  /\ pc \in {"chat", "running"}
  /\ ev' = Event(IF pc = "chat" THEN "interrupt_at_prompt" ELSE "interrupt_in_call", <<>>, 0)
  /\ call' = NoCall
  /\ printed' = <<"Traceback">>
  /\ pc' = "fault"
  /\ allOk' = FALSE
  /\ UNCHANGED << dl, registry, model_name, should_continue, conversation, prompt, session,
                  okTurns >>

\* KeyboardInterrupt inside the try (at the prompt or during the runner call):
\* print, break, return False
Interrupted ==
  /\ pc \in {"chat", "running"}
  /\ ev' = Event(IF pc = "chat" THEN "interrupt_at_prompt" ELSE "interrupt_in_call", <<>>, 0)
  /\ call' = NoCall
  /\ printed' = <<"Goodbye!">>
  /\ pc' = "returned"
  /\ should_continue' = FALSE
  /\ allOk' = FALSE
  /\ UNCHANGED << dl, registry, model_name, conversation, prompt, session, okTurns >>

\* ------------------------------------------------------------------- main()

\* The banner and setup_environment().
Setup ==
  /\ pc = "start"
  /\ pc' = "check"
  /\ printed' = <<"UNCENSORED LLM CHAT">>
  /\ ev' = Event("setup", <<>>, 0)
  /\ UNCHANGED << dl, registry, model_name, should_continue, conversation, prompt, call,
                  session, okTurns, allOk >>

\* What running ['ollama', 'list'] may do: exit with status 0, exit with
\* another status, or fail to start (FileNotFoundError).
ToolOutcomes == {"ok", "nonzero", "missing"}

\* Mutant: the status is not tested; only a missing executable counts.
check_ollama_running_any_status(outcome) == outcome # "missing"

\* check_ollama_running(): returncode == 0, and False on FileNotFoundError.
check_ollama_running(outcome) == outcome = "ok"

\* if not check_ollama_running(): print the instructions, sys.exit(1)
CheckOllama(outcome) ==
  /\ pc = "check"
  /\ ev' = Event("check_" \o outcome, <<>>, 0)
  /\ IF check_ollama_running(outcome)
     THEN /\ pc' = "list"
          /\ printed' = <<"Ollama is installed and running">>
     ELSE /\ pc' = "exit1"
          /\ printed' = <<"Ollama is not installed or not running!",
                          "To install Ollama: <instructions>">>
  /\ UNCHANGED << dl, registry, model_name, should_continue, conversation, prompt, call,
                  session, okTurns, allOk >>

\* list_installed_models(): stdout when the status is 0, "" when it is not
\* and "" when the call raised.
list_installed_models(outcome) == IF outcome = "ok" THEN "<listing>" ELSE ""

\* print("Installed models:"); print(list_installed_models())
ListInstalled(outcome) ==
  /\ pc = "list"
  /\ pc' = "select"
  /\ ev' = Event("list_" \o outcome, <<>>, 0)
  /\ printed' = <<"Installed models:", list_installed_models(outcome)>>
  /\ UNCHANGED << dl, registry, model_name, should_continue, conversation, prompt, call,
                  session, okTurns, allOk >>

\* model_name = select_model()
MainSelect(line) ==
  /\ pc = "select"
  /\ LET r == select_model(registry, line)
     IN  /\ model_name' = r.name
         /\ printed' = r.printed
  /\ pc' = "selected"
  /\ ev' = Event("select_input", line, 0)
  /\ session' = session + 1
  /\ UNCHANGED << dl, registry, should_continue, conversation, prompt, call, okTurns, allOk >>

\* What input() may raise instead of returning a line.
InputFaults == {"KeyboardInterrupt", "EOFError"}

\* input() of select_model() raised: neither select_model() nor main() has a
\* handler, so the exception leaves main() and the process dies with a traceback.
SelectRaises(exc) ==
  /\ pc = "select"
  /\ pc' = "fault"
  /\ ev' = Event("select_raised_" \o exc, <<>>, 0)
  /\ printed' = <<"Traceback: " \o exc>>
  /\ UNCHANGED << dl, registry, model_name, should_continue, conversation, prompt, call,
                  session, okTurns, allOk >>

\* should_continue = chat(model_name); if not should_continue: break
MainLoop ==
  /\ pc = "returned"
  /\ pc' = IF should_continue THEN "select" ELSE "done"
  /\ ev' = Event("chat_returned", <<>>, 0)
  /\ printed' = <<>>
  /\ UNCHANGED << dl, registry, model_name, should_continue, conversation, prompt, call,
                  session, okTurns, allOk >>

\* ------------------------------------------------- download_all_models()

\* Lines typed at the "Proceed with download? (y/n): " prompt.
ConfirmLines == { <<"y">>, <<" ","Y"," ">>, <<"n">>, <<>>, <<"y","e","s">>, <<"N">> }

\* download_model(): returncode == 0, and False (with a message) when
\* subprocess.run raised.
download_model(outcome) == outcome = "ok"

\* if interactive: proceed = input(...).strip().lower(); if proceed != 'y':
\* print, return False
DownloadConfirm(line) ==
  /\ dl.pc = "confirm"
  /\ LET proceed == Lower(Strip(line))
     IN  IF proceed # <<"y">>
         THEN /\ dl' = [dl EXCEPT !.pc = "done", !.answer = line, !.result = FALSE]
              /\ printed' = <<"Download cancelled.">>
         ELSE /\ dl' = [dl EXCEPT !.pc = "loop", !.answer = line]
              /\ printed' = <<>>
  /\ ev' = Event("confirm_input", line, 0)
  /\ UNCHANGED << pc, registry, model_name, should_continue, conversation, prompt,
                  call, session, okTurns, allOk >>

\* Mutant: the loop is left at the first failed download.
DownloadNextStopsOnFailure(outcome) ==
  /\ dl.pc = "loop"
  /\ dl.i <= Len(registry)
  /\ LET ok == download_model(outcome)
     IN  /\ dl' = [dl EXCEPT !.i = IF ok THEN dl.i + 1 ELSE Len(registry) + 1,
                             !.success_count = IF ok THEN dl.success_count + 1
                                               ELSE dl.success_count,
                             !.log = Append(dl.log, [name |-> registry[dl.i].name, ok |-> ok])]
         /\ printed' = <<IF ok THEN "Successfully downloaded <name>"
                         ELSE "Failed to download <name>">>
  /\ ev' = Event("pull_" \o outcome, <<>>, 0)
  /\ UNCHANGED << pc, registry, model_name, should_continue, conversation, prompt,
                  call, session, okTurns, allOk >>

\* One pass of for model in MODELS: download_model(model['name']), count it.
DownloadNext(outcome) ==
  /\ dl.pc = "loop"
  /\ dl.i <= Len(registry)
  /\ LET ok == download_model(outcome)
     IN  /\ dl' = [dl EXCEPT !.i = dl.i + 1,
                             !.success_count = IF ok THEN dl.success_count + 1
                                               ELSE dl.success_count,
                             !.log = Append(dl.log, [name |-> registry[dl.i].name, ok |-> ok])]
         /\ printed' = <<IF ok THEN "Successfully downloaded <name>"
                         ELSE "Failed to download <name>">>
  /\ ev' = Event("pull_" \o outcome, <<>>, 0)
  /\ UNCHANGED << pc, registry, model_name, should_continue, conversation, prompt,
                  call, session, okTurns, allOk >>

\* After the loop: the summary, return success_count > 0
DownloadFinish ==
  /\ dl.pc = "loop"
  /\ dl.i > Len(registry)
  /\ dl' = [dl EXCEPT !.pc = "done", !.result = (dl.success_count > 0)]
  /\ printed' = <<"Download complete: <success_count>/<n> models">>
  /\ ev' = Event("download_done", <<>>, 0)
  /\ UNCHANGED << pc, registry, model_name, should_continue, conversation, prompt,
                  call, session, okTurns, allOk >>

\* ----------------------------------------------------------- specifications

Init ==
  /\ pc = "start"
  /\ registry = MODELS
  /\ model_name = NoModel
  /\ should_continue = FALSE
  /\ conversation = <<>>
  /\ prompt = <<>>
  /\ call = NoCall
  /\ printed = <<>>
  /\ ev = Event("none", <<>>, 0)
  /\ session = 0
  /\ okTurns = 0
  /\ allOk = TRUE
  /\ dl = NoDownload

Next ==
  \/ Setup
  \/ \E outcome \in ToolOutcomes : CheckOllama(outcome)
  \/ \E outcome \in ToolOutcomes : ListInstalled(outcome)
  \/ \E line \in SelectLines : MainSelect(line)
  \/ \E exc \in InputFaults : SelectRaises(exc)
  \/ ChatStart
  \/ \E line \in ChatLines : ChatEmpty(line)
  \/ \E line \in ChatLines : ChatExit(line)
  \/ \E line \in ChatLines : ChatClear(line)
  \/ \E line \in ChatLines : ChatModels(line)
  \/ \E line \in ChatLines : ChatMessage(line)
  \/ \E r \in RunnerOutcomes : RunnerReturns(r.rc, r.stdout)
  \/ RunnerRaises
  \/ InputRaises
  \/ Interrupted
  \/ MainLoop

Spec == Init /\ [][Next]_vars

\* select_model() alone, over every registry and every selector line.
InitSelect ==
  /\ pc = "select"
  /\ registry \in Registries
  /\ model_name = NoModel
  /\ should_continue = FALSE
  /\ conversation = <<>>
  /\ prompt = <<>>
  /\ call = NoCall
  /\ printed = <<>>
  /\ ev = Event("none", <<>>, 0)
  /\ session = 0
  /\ okTurns = 0
  /\ allOk = TRUE
  /\ dl = NoDownload

NextSelect == \E line \in AllSelectLines : MainSelect(line)

SpecSelect == InitSelect /\ [][NextSelect]_vars

\* ------------------------------------------------------------------ claims

\* The steps that read a line at the "You: " prompt.
ReadsLine == pc = "chat" /\ ev'.kind = "input"

IsSuffix(suf, s) ==
  /\ Len(suf) <= Len(s)
  /\ SubSeq(s, Len(s) - Len(suf) + 1, Len(s)) = suf

\* The strings of a sequence joined by newlines.
RECURSIVE JoinLines(_)
JoinLines(ss) ==
  IF ss = <<>> THEN <<>>
  ELSE IF Len(ss) = 1 THEN ss[1]
  ELSE ss[1] \o NL \o JoinLines(Tail(ss))

RoleLabel(role) == IF role = "user" THEN UserLabel ELSE AssistantLabel

\* The prompt the claim describes: every message as "<RoleLabel>: <content>",
\* in order, joined by newlines with the cue "Assistant: " as the last line.
ExpectedPrompt(conv) ==
  JoinLines([i \in 1..Len(conv) |-> RoleLabel(conv[i].role) \o conv[i].content]
            \o <<AssistantLabel>>)

\* C1: every prompt passed to the runner is the full current history in
\* insertion order, each message rendered as "User: <content>" or
\* "Assistant: <content>", joined by newlines and followed by the cue
\* "Assistant: " with nothing after it.
C1_PromptIsFullHistory ==
  call.live => /\ call.prompt = ExpectedPrompt(conversation)
               /\ call.prompt = prompt

C1_Witness ==
  /\ call.live
  /\ Len(conversation) = 3
  /\ conversation[2].role = "assistant"
  /\ conversation[1].content # conversation[3].content

\* C2: after N message turns that all returned exit status 0 (and nothing
\* else since chat() started), the history holds exactly 2N messages whose
\* roles alternate user, assistant, ..., starting with user.
C2_AlternatingAfterOkTurns ==
  (pc = "chat" /\ allOk) =>
     /\ Len(conversation) = 2 * okTurns
     /\ \A i \in 1..Len(conversation) :
          conversation[i].role = IF i % 2 = 1 THEN "user" ELSE "assistant"

C2_Witness == pc = "chat" /\ allOk /\ okTurns = 2

\* C3: a runner call that returns a non-zero status appends nothing, leaves
\* the turn's user message last in the history and the loop at the prompt;
\* the next message turn, taken while that message is still the last entry,
\* sends a prompt in which it stands right before the new user message.
C3_FailedTurnKeepsUserMessage ==
  [][ /\ (pc = "running" /\ ev'.kind = "returned" /\ ev'.rc # 0) =>
           /\ conversation' = conversation
           /\ conversation'[Len(conversation')].role = "user"
           /\ pc' = "chat"
           /\ ~call'.live
      /\ (ReadsLine /\ call'.live /\ conversation # <<>>
            /\ conversation[Len(conversation)].role = "user") =>
           IsSuffix(UserLabel \o conversation[Len(conversation)].content \o NL
                      \o UserLabel \o Strip(ev'.text) \o NL \o AssistantLabel,
                    call'.prompt) ]_vars

C3_Witness ==
  /\ call.live
  /\ Len(conversation) >= 2
  /\ conversation[Len(conversation) - 1].role = "user"
  /\ conversation[Len(conversation)].role = "user"

\* The history [user:"hi", user:"how are you"] with the runner call of the
\* second turn in flight.
C4_Scenario ==
  /\ call.live
  /\ Len(conversation) = 2
  /\ conversation[1].role = "user" /\ conversation[1].content = Hi
  /\ conversation[2].role = "user" /\ conversation[2].content = HowAreYou

\* C4 as stated: with history [user:"hi"] and next input "how are you" the
\* prompt is "User: hi\nAssistant: \nUser: how are you\nAssistant: ".
C4_BlankAssistantLine ==
  C4_Scenario =>
    call.prompt = UserLabel \o Hi \o NL \o AssistantLabel \o NL
                    \o UserLabel \o HowAreYou \o NL \o AssistantLabel

\* C4, amended: in that scenario the prompt is
\* "User: hi\nUser: how are you\nAssistant: ": the two user messages on
\* consecutive lines, with no "Assistant: " line between them.
C4_NoBlankAssistantLine ==
  C4_Scenario =>
    call.prompt = UserLabel \o Hi \o NL \o UserLabel \o HowAreYou \o NL \o AssistantLabel

C4_Witness == C4_Scenario /\ ev.text = HowAreYou

\* C5: /clear leaves the history empty whatever its length was, starts no
\* runner call and keeps the loop at the prompt; the message turn that then
\* finds the history empty sends a prompt holding only the new user message.
C5_ClearEmptiesHistory ==
  [][ /\ (ReadsLine /\ Strip(ev'.text) = ClearCmd) =>
           /\ conversation' = <<>>
           /\ ~call'.live
           /\ pc' = "chat"
      /\ (ReadsLine /\ call'.live /\ conversation = <<>>) =>
           call'.prompt = UserLabel \o Strip(ev'.text) \o NL \o AssistantLabel ]_vars

C5_Witness ==
  /\ pc = "chat"
  /\ ev.kind = "input" /\ Strip(ev.text) = ClearCmd
  /\ conversation = <<>>
  /\ prompt # <<>>

\* C6: /models appends nothing to the history, starts no runner call and
\* ends chat() with the return value true, from any history.
C6_ModelsReturnsTrue ==
  [][ (ReadsLine /\ Strip(ev'.text) = ModelsCmd) =>
         /\ conversation' = conversation
         /\ ~call'.live
         /\ pc' = "returned"
         /\ should_continue' = TRUE ]_vars

C6_Witness ==
  /\ pc = "returned"
  /\ should_continue
  /\ ev.kind = "input" /\ ev.text = ModelsCmd
  /\ Len(conversation) >= 2

\* Two texts that are equal up to the case of their letters.
SameLetter(a, b) ==
  \/ a = b
  \/ \E i \in 1..Len(UpperLetters) :
        {a, b} = {UpperLetters[i], LowerLetters[i]}

EqualIgnoringCase(s, t) ==
  /\ Len(s) = Len(t)
  /\ \A i \in 1..Len(s) : SameLetter(s[i], t[i])

\* C7: a line whose trimmed text is "exit" or "quit" in any letter case ends
\* chat() with the return value false, appends nothing to the history and
\* starts no runner call.
C7_ExitReturnsFalse ==
  [][ (ReadsLine /\ \E w \in {ExitWord, QuitWord} : EqualIgnoringCase(Strip(ev'.text), w)) =>
         /\ pc' = "returned"
         /\ should_continue' = FALSE
         /\ conversation' = conversation
         /\ ~call'.live ]_vars

C7_Witness ==
  /\ pc = "returned"
  /\ ~should_continue
  /\ ev.kind = "input" /\ ev.text = <<"E","X","I","T">>
  /\ conversation # <<>>

\* C8: an empty or whitespace-only line leaves the history unchanged, starts
\* no runner call and keeps the loop at the prompt.
C8_BlankLineChangesNothing ==
  [][ (ReadsLine /\ \A i \in 1..Len(ev'.text) : IsSpace(ev'.text[i])) =>
         /\ conversation' = conversation
         /\ ~call'.live
         /\ pc' = "chat" ]_vars

C8_Witness ==
  /\ pc = "chat"
  /\ ev.kind = "input" /\ ev.text = <<" "," ">>
  /\ conversation # <<>>

\* The value of a string of decimal digits.
DigitValue(c) == (CHOOSE i \in 1..Len(Digits) : Digits[i] = c) - 1

IsDigits(s) == s # <<>> /\ \A i \in 1..Len(s) : \E d \in 1..Len(Digits) : Digits[d] = s[i]

RECURSIVE DecimalValue(_)
DecimalValue(s) ==
  IF s = <<>> THEN 0
  ELSE 10 * DecimalValue(SubSeq(s, 1, Len(s) - 1)) + DigitValue(s[Len(s)])

\* The line denotes the index k: trimmed, it is a string of digits of value k.
DenotesIndex(line, k) == IsDigits(Strip(line)) /\ DecimalValue(Strip(line)) = k

\* The line is the numeral of k as the menu shows it: no leading zero.
IsNumeralOf(line, k) == DenotesIndex(line, k) /\ Strip(line)[1] # "0"

ReturnsDefault ==
  /\ model_name = registry[1].name
  /\ \E i \in 1..Len(printed) : printed[i] = FallbackNotice

ReturnsEntry(k) ==
  /\ model_name = registry[k].name
  /\ \A i \in 1..Len(printed) : printed[i] # FallbackNotice

\* C9 as stated: select_model() returns the k-th identifier when the line
\* denotes an index k in 1..n, and for every other line the first identifier
\* with the fallback notice; no line makes it fail.
C9_IndexOrDefault ==
  (ev.kind = "select_input") =>
    /\ pc = "selected"
    /\ IF \E k \in 1..Len(registry) : DenotesIndex(ev.text, k)
       THEN \A k \in 1..Len(registry) : DenotesIndex(ev.text, k) => ReturnsEntry(k)
       ELSE ReturnsDefault

\* C9, amended: select_model() returns the k-th identifier when the trimmed
\* line is exactly the decimal numeral of k (1 <= k <= n, no sign, no leading
\* zero), and for every other line (empty, 0, n+1, non-numeric, or a
\* zero-padded number such as "02") the first identifier with the fallback
\* notice; no line makes it fail.
C9_NumeralOrDefault ==
  (ev.kind = "select_input") =>
    /\ pc = "selected"
    /\ IF \E k \in 1..Len(registry) : IsNumeralOf(ev.text, k)
       THEN \A k \in 1..Len(registry) : IsNumeralOf(ev.text, k) => ReturnsEntry(k)
       ELSE ReturnsDefault

C9_Witness ==
  /\ pc = "selected"
  /\ ev.text = <<" ","3"," ">>
  /\ Len(registry) = 4
  /\ model_name = registry[3].name
  /\ model_name # registry[1].name

\* C10: main() calls select_model() and chat() again exactly when chat()
\* returned true and stops when it returned false; every chat() starts with
\* an empty history, so every message of the history, and so of every prompt
\* sent, was entered under the current model selection.
C10_Inv ==
  /\ pc \in {"chat", "running"} =>
       \A i \in 1..Len(conversation) : conversation[i].session = session
  /\ call.live => /\ call.model = model_name
                  /\ call.prompt = ExpectedPrompt(conversation)

C10_FreshHistoryPerSelection ==
  /\ []C10_Inv
  /\ [][ /\ pc = "returned" => pc' = IF should_continue THEN "select" ELSE "done"
         /\ pc' = "select" => (pc = "list" \/ (pc = "returned" /\ should_continue))
         /\ pc # "done"
         /\ pc' = "chat" /\ pc # "chat" => (pc \in {"selected", "running"}
                                            /\ (pc = "selected" => conversation' = <<>>)) ]_vars

C10_Witness ==
  /\ session = 2
  /\ call.live
  /\ Len(conversation) >= 2
  /\ model_name = MODELS[2].name

\* C11: an interrupt inside the loop of chat(), at the prompt or while the
\* runner call is in flight, is caught: a farewell is printed and chat()
\* returns false; it never leaves chat() as a fault.
C11_InterruptReturnsFalse ==
  [][ ev'.kind \in {"interrupt_at_prompt", "interrupt_in_call"} =>
         /\ pc \in {"chat", "running"}
         /\ pc' = "returned"
         /\ should_continue' = FALSE
         /\ printed' = <<"Goodbye!">>
         /\ ~call'.live
         /\ conversation' = conversation ]_vars

C11_Witness ==
  /\ pc = "returned"
  /\ ev.kind = "interrupt_in_call"
  /\ ~should_continue
  /\ Len(conversation) = 3

\* C12: a failure other than an interrupt during a turn (the input read
\* fails, the runner cannot be started) is caught and printed as an error and
\* the loop stays at the prompt; it ends neither chat() nor the process.
C12_FaultKeepsLoop ==
  [][ ev'.kind \in {"input_raised", "runner_raised"} =>
         /\ pc \in {"chat", "running"}
         /\ pc' = "chat"
         /\ printed' = <<"Error: <e>">>
         /\ ~call'.live
         /\ UNCHANGED << model_name, should_continue, session >> ]_vars

C12_Witness ==
  /\ pc = "chat"
  /\ ev.kind = "runner_raised"
  /\ printed = <<"Error: <e>">>

\* C13: when the tool check at startup finds the tool missing or failing,
\* main() prints the instructions and exits with status 1 before any
\* select_model() or chat() call; the setup runs before the check, and the
\* check runs once.
C13_NoSessionBeforeExit ==
  pc \in {"start", "check", "exit1"} =>
    /\ session = 0
    /\ conversation = <<>>
    /\ ~call.live
    /\ model_name = NoModel

C13_UnavailableToolExits ==
  /\ []C13_NoSessionBeforeExit
  /\ [][ /\ (pc = "check" /\ ev'.kind \in {"check_nonzero", "check_missing"}) =>
              /\ pc' = "exit1"
              /\ \E i \in 1..Len(printed') : printed'[i] = "To install Ollama: <instructions>"
         /\ pc # "exit1"
         /\ pc' = "check" => (pc = "start" /\ ev'.kind = "setup")
         /\ pc' # "start" ]_vars

C13_Witness == pc = "exit1" /\ ev.kind = "check_missing"

\* C14: an interrupt at the model-selection prompt ends the session
\* gracefully and does not leave main() as an unhandled fault.
C14_InterruptAtSelectorIsGraceful ==
  ev.kind = "select_raised_KeyboardInterrupt" => pc # "fault"

\* The messages that report an error to the user.
ErrorMessages == {"Error: <stderr>", "Error: <e>"}

\* C15: no error is swallowed without a visible message: a non-zero runner
\* status, a fault caught during a turn and a failed installed-models query
\* at startup each print an error message.
C15_EveryErrorIsReported ==
  (\/ ev.kind = "returned" /\ ev.rc # 0
   \/ ev.kind \in {"input_raised", "runner_raised"}
   \/ ev.kind \in {"list_nonzero", "list_missing"}) =>
     \E i \in 1..Len(printed) : printed[i] \in ErrorMessages

IsPrefix(pre, s) == Len(pre) <= Len(s) /\ SubSeq(s, 1, Len(pre)) = pre

\* C16: when select_model() falls back to the default, the model its notice
\* names is the model whose identifier it returns.
C16_NoticeNamesReturnedModel ==
  (pc = "selected" /\ \E i \in 1..Len(printed) : printed[i] = FallbackNotice) =>
     \E k \in 1..Len(registry) :
        /\ registry[k].name = model_name
        /\ IsPrefix(AnnouncedDefault, registry[k].description)

\* download_all_models() alone, called with interactive true or false.
InitDownload ==
  /\ pc = "download"
  /\ registry = MODELS
  /\ model_name = NoModel
  /\ should_continue = FALSE
  /\ conversation = <<>>
  /\ prompt = <<>>
  /\ call = NoCall
  /\ printed = <<"DOWNLOADING MODELS">>
  /\ ev = Event("none", <<>>, 0)
  /\ session = 0
  /\ okTurns = 0
  /\ allOk = TRUE
  /\ \E interactive \in BOOLEAN :
        dl = [NoDownload EXCEPT !.interactive = interactive,
                                !.pc = IF interactive THEN "confirm" ELSE "loop"]

NextDownload ==
  \/ \E line \in ConfirmLines : DownloadConfirm(line)
  \/ \E outcome \in ToolOutcomes : DownloadNext(outcome)
  \/ DownloadFinish

SpecDownload == InitDownload /\ [][NextDownload]_vars

\* C17: download_all_models() attempts every model of the registry once, in
\* registry order, whether or not a download failed, and returns true exactly
\* when a download succeeded; in interactive mode an answer other than "y"
\* (trimmed, in either case) returns false with no download attempted.
C17_Declined == dl.interactive /\ ~EqualIgnoringCase(Strip(dl.answer), <<"y">>)

C17_DownloadsAllInOrder ==
  /\ Len(dl.log) <= Len(registry)
  /\ \A k \in 1..Len(dl.log) : dl.log[k].name = registry[k].name
  /\ dl.pc = "done" =>
       IF C17_Declined
       THEN dl.log = <<>> /\ dl.result = FALSE
       ELSE /\ Len(dl.log) = Len(registry)
            /\ dl.result = (\E k \in 1..Len(dl.log) : dl.log[k].ok)

C17_Witness ==
  /\ dl.pc = "done"
  /\ dl.interactive
  /\ dl.result
  /\ Len(dl.log) = Len(registry)
  /\ ~dl.log[1].ok
  /\ dl.log[Len(dl.log)].ok

\* The loop of chat() alone, from its first prompt, over the lines of the
\* classification check.
InitTurn ==
  /\ pc = "chat"
  /\ registry = MODELS
  /\ model_name = MODELS[1].name
  /\ should_continue = FALSE
  /\ conversation = <<>>
  /\ prompt = <<>>
  /\ call = NoCall
  /\ printed = <<"Starting chat with <model_name>">>
  /\ ev = Event("chat_start", <<>>, 0)
  /\ session = 1
  /\ okTurns = 0
  /\ allOk = TRUE
  /\ dl = NoDownload

NextTurn ==
  \/ \E line \in TurnLines : ChatEmpty(line)
  \/ \E line \in TurnLines : ChatExit(line)
  \/ \E line \in TurnLines : ChatClear(line)
  \/ \E line \in TurnLines : ChatModels(line)
  \/ \E line \in TurnLines : ChatMessage(line)
  \/ \E r \in RunnerOutcomes : RunnerReturns(r.rc, r.stdout)

SpecTurn == InitTurn /\ [][NextTurn]_vars

\* The branch the claim assigns to a line: the tests are made on the trimmed
\* line in the order empty, exit/quit, /clear, /models, message.
ExpectedBranch(line) ==
  LET t == Strip(line)
  IN  IF \A i \in 1..Len(line) : IsSpace(line[i]) THEN "empty"
      ELSE IF \E w \in {ExitWord, QuitWord} : EqualIgnoringCase(t, w) THEN "exit"
      ELSE IF t = ClearCmd THEN "clear"
      ELSE IF t = ModelsCmd THEN "models"
      ELSE "message"

\* What each branch does, told apart by where the loop goes and what it prints.
TookEmpty   == pc' = "chat" /\ printed' = <<>> /\ conversation' = conversation /\ ~call'.live
TookExit    == pc' = "returned" /\ ~should_continue' /\ conversation' = conversation
TookClear   == pc' = "chat" /\ printed' = <<"[Conversation history cleared]">>
                 /\ conversation' = <<>> /\ ~call'.live
TookModels  == pc' = "returned" /\ should_continue' /\ conversation' = conversation
TookMessage == /\ pc' = "running"
               /\ call'.live
               /\ Len(conversation') = Len(conversation) + 1
               /\ SubSeq(conversation', 1, Len(conversation)) = conversation
               /\ conversation'[Len(conversation')].role = "user"
               /\ conversation'[Len(conversation')].content = Strip(ev'.text)

BranchesTaken ==
  {b \in {"empty", "exit", "clear", "models", "message"} :
     \/ b = "empty" /\ TookEmpty
     \/ b = "exit" /\ TookExit
     \/ b = "clear" /\ TookClear
     \/ b = "models" /\ TookModels
     \/ b = "message" /\ TookMessage}

\* C18: every line read takes exactly one branch, the one its trimmed text
\* selects in the order empty, exit/quit, /clear, /models, message; /clear and
\* /models match only exactly, so "/CLEAR", "/Models" and "/clear now" are
\* sent as messages, while " /clear " is the command.
C18_OneBranchPerLine ==
  [][ ReadsLine =>
        /\ BranchesTaken = {ExpectedBranch(ev'.text)}
        /\ ev'.text \in {UpperClear, MixedModels, ClearNow} => TookMessage
        /\ ev'.text = PaddedClear => TookClear ]_vars

C18_Witness ==
  /\ call.live
  /\ Len(conversation) = 3
  /\ conversation[1].content = UpperClear
  /\ conversation[3].content = ClearNow
  /\ ev.text = ClearNow

\* A runner call starts in this step.
CallStarts == call'.live /\ (~call.live \/ call' # call)

\* C19: inside chat() a runner call starts when, and only when, a message
\* line is read; it starts with the user message of that line already last
\* in the history and in the prompt, and with the model identifier chat() was
\* given, which does not change while chat() runs; no line is read while a
\* call is in flight.
C19_OneCallPerMessage ==
  [][ /\ call.live => pc = "running"
      /\ ReadsLine => /\ ~call.live
                      /\ call'.live <=> (ExpectedBranch(ev'.text) = "message")
      /\ CallStarts =>
           /\ ReadsLine
           /\ ExpectedBranch(ev'.text) = "message"
           /\ conversation' = Append(conversation, conversation'[Len(conversation')])
           /\ conversation'[Len(conversation')].role = "user"
           /\ conversation'[Len(conversation')].content = Strip(ev'.text)
           /\ IsSuffix(UserLabel \o Strip(ev'.text) \o NL \o AssistantLabel, call'.prompt)
           /\ call'.model = model_name
      /\ pc \in {"chat", "running"} => model_name' = model_name
      /\ (call.live /\ call'.live) => call' = call ]_vars

C19_Witness ==
  /\ call.live
  /\ call.model = MODELS[2].name
  /\ session = 2
  /\ Len(conversation) = 3

\* C20: when the runner call raises a fault that is not an interrupt, the
\* history is left as it is, with the turn's user message last and no
\* assistant message, and the loop is back at the prompt, as after a
\* non-zero exit status; the message turn that follows sends the whole
\* history, the retained message included, followed by the new one.
C20_FaultKeepsUserMessage ==
  [][ /\ ev'.kind = "runner_raised" =>
           /\ pc = "running"
           /\ conversation' = conversation
           /\ conversation # <<>>
           /\ conversation[Len(conversation)].role = "user"
           /\ pc' = "chat"
           /\ ~call'.live
           /\ prompt' = prompt
      /\ (ev.kind = "runner_raised" /\ ReadsLine /\ call'.live) =>
           /\ Len(conversation') = Len(conversation) + 1
           /\ conversation'[Len(conversation)] = conversation[Len(conversation)]
           /\ conversation'[Len(conversation)].role = "user"
           /\ call'.prompt = ExpectedPrompt(conversation') ]_vars

C20_Witness ==
  /\ pc = "chat"
  /\ ev.kind = "runner_raised"
  /\ Len(conversation) = 2
  /\ conversation[1].role = "user"
  /\ conversation[2].role = "user"

\* The number of messages of a history that carry a role.
CountRole(h, role) == Cardinality({i \in 1..Len(h) : h[i].role = role})

\* The shape of a history: user first, a user message right before every
\* assistant message, no more assistant messages than user messages.
WellShaped(h) ==
  /\ \A i \in 1..Len(h) : h[i].role \in {"user", "assistant"}
  /\ h # <<>> => h[1].role = "user"
  /\ \A i \in 1..Len(h) :
       h[i].role = "assistant" => (i > 1 /\ h[i - 1].role = "user")
  /\ CountRole(h, "assistant") <= CountRole(h, "user")

\* One step of a history: left alone, emptied, or extended by one message.
HistoryStep(h, g) ==
  \/ g = h
  \/ g = <<>>
  \/ Len(g) = Len(h) + 1 /\ SubSeq(g, 1, Len(h)) = h

\* C21: in every reachable state the history is empty or starts with a user
\* message, every assistant message stands right after a user message, the
\* assistant messages are no more than the user messages, and every step
\* changes the history only by appending one message or by emptying it.
C21_HistoryShape ==
  /\ [](WellShaped(conversation))
  /\ [][HistoryStep(conversation, conversation')]_vars

\* After a failed turn and a successful turn: the history is user, user,
\* assistant, and the loop is back at the prompt.
C21_Witness ==
  /\ pc = "chat"
  /\ ev.kind = "returned"
  /\ ~allOk
  /\ Len(conversation) = 3
  /\ conversation[1].role = "user"
  /\ conversation[2].role = "user"
  /\ conversation[3].role = "assistant"

====
